---------------------------- MODULE Spec2Model ----------------------------
(***************************************************************************)
(* A model of the i_mth vector library (src/src/vectors/vector2d.rs and    *)
(* src/src/vectors/vector3d.rs): the Vector2D and Vector3D value types     *)
(* over f64 and their operations.                                          *)
(*                                                                         *)
(* f64 values.  Arithmetic is exact: rounding error is abstracted away and *)
(* zero is unsigned.  A finite value is                                    *)
(*   <<"q", n, d>>     the rational n/d, d > 0, gcd(n, d) = 1;              *)
(*   <<"surd", c, m>>  c * sqrt(m), c a non-zero rational, m > 1 a         *)
(*                     square-free integer (what sqrt returns for a        *)
(*                     rational that is not a square);                     *)
(*   a term            <<"atan", a>>, <<"acos", a>>, <<"sqrt", a>>, or     *)
(*                     <<"neg", a>>, <<"add", a, b>>, <<"mul", a, b>>,      *)
(*                     <<"div", a, b>> over a term: atan and acos are      *)
(*                     injective, so two such values are equal exactly     *)
(*                     when their terms are.                               *)
(* The IEEE special values are NaN, PInf and NInf, with the IEEE rules:    *)
(* NaN absorbs; Inf - Inf, 0 * Inf, Inf / Inf and 0 / 0 are NaN; x / 0 is   *)
(* an infinity for x # 0; an ordered comparison with NaN is false.         *)
(***************************************************************************)
EXTENDS Integers, Sequences, FiniteSets, TLC

VARIABLES self, arg1, arg2, call, conv
vars == <<self, arg1, arg2, call, conv>>

(***************************************************************************)
(* f64                                                                     *)
(***************************************************************************)
RECURSIVE GCD(_, _)
GCD(a, b) == IF b = 0 THEN a ELSE GCD(b, a % b)

Abs(n) == IF n < 0 THEN -n ELSE n

\* The rational n/d (d # 0), in lowest terms with a positive denominator.
Q(n, d) ==
    LET g == GCD(Abs(n), Abs(d))
        s == IF d < 0 THEN -1 ELSE 1
    IN  <<"q", (s * n) \div g, (s * d) \div g>>

Num(i) == <<"q", i, 1>>
Zero == Num(0)
One == Num(1)
NaN == <<"nan", 0, 1>>
PInf == <<"inf", 1, 1>>
NInf == <<"inf", -1, 1>>

IsQ(a) == a[1] = "q"
IsSurd(a) == a[1] = "surd"
IsNaN(a) == a[1] = "nan"
IsInf(a) == a[1] = "inf"
\* An exactly evaluated finite value: c * sqrt(m), with m = 1 for a rational.
IsAlg(a) == IsQ(a) \/ IsSurd(a)
IsTerm(a) == a[1] \notin {"q", "surd", "nan", "inf"}
IsFinite(a) == IsAlg(a) \/ IsTerm(a)

Coef(a) == IF IsSurd(a) THEN a[2] ELSE a
Rad(a) == IF IsSurd(a) THEN a[3] ELSE 1

\* +1, 0 or -1 for a rational, a surd or an infinity.
Sign(a) ==
    LET n == Coef(a)[2]
    IN  IF n > 0 THEN 1 ELSE IF n < 0 THEN -1 ELSE 0

SignedInf(s) == IF s < 0 THEN NInf ELSE PInf

\* The integer square root of n >= 0.
ISqrt(n) == CHOOSE r \in 0..n : r * r <= n /\ n < (r + 1) * (r + 1)

\* The largest k with k * k dividing n >= 1.
SquarePart(n) ==
    LET ks == {k \in 1..ISqrt(n) : n % (k * k) = 0}
    IN  CHOOSE k \in ks : \A j \in ks : j <= k

\* c * sqrt(n) for a rational c and an integer n >= 0, in canonical form.
Root(c, n) ==
    IF n = 0 \/ c = Zero THEN Zero
    ELSE IF n = 1 THEN c
    ELSE LET k == SquarePart(n)
             m == n \div (k * k)
             cc == Q(c[2] * k, c[3])
         IN  IF m = 1 THEN cc ELSE <<"surd", cc, m>>

\* 1 / b for an exactly evaluated b # 0: 1 / (c * sqrt(m)) = sqrt(m) / (c * m).
Inv(b) == Root(Q(Coef(b)[3], Coef(b)[2] * Rad(b)), Rad(b))

\* f64 unary minus.
Neg(a) ==
    CASE IsNaN(a) -> NaN
      [] IsInf(a) -> SignedInf(-Sign(a))
      [] IsAlg(a) -> Root(Q(-Coef(a)[2], Coef(a)[3]), Rad(a))
      [] IsTerm(a) -> <<"neg", a>>

\* f64 +.
Add(a, b) ==
    CASE IsNaN(a) \/ IsNaN(b) -> NaN
      [] IsInf(a) /\ IsInf(b) -> IF a = b THEN a ELSE NaN
      [] IsInf(a) /\ IsFinite(b) -> a
      [] IsFinite(a) /\ IsInf(b) -> b
      [] IsAlg(a) /\ IsAlg(b) /\ Rad(a) = Rad(b) ->
            Root(Q(Coef(a)[2] * Coef(b)[3] + Coef(b)[2] * Coef(a)[3],
                   Coef(a)[3] * Coef(b)[3]), Rad(a))
      [] IsFinite(a) /\ IsFinite(b) /\ ~(IsAlg(a) /\ IsAlg(b) /\ Rad(a) = Rad(b)) ->
            IF a = Zero THEN b ELSE IF b = Zero THEN a ELSE <<"add", a, b>>

\* f64 binary -: x - y is x + (-y) in IEEE arithmetic.
Sub(a, b) == Add(a, Neg(b))

\* f64 *.
Mul(a, b) ==
    CASE IsNaN(a) \/ IsNaN(b) -> NaN
      [] IsInf(a) /\ IsInf(b) -> SignedInf(Sign(a) * Sign(b))
      [] IsInf(a) /\ IsAlg(b) -> IF Sign(b) = 0 THEN NaN ELSE SignedInf(Sign(a) * Sign(b))
      [] IsAlg(a) /\ IsInf(b) -> IF Sign(a) = 0 THEN NaN ELSE SignedInf(Sign(a) * Sign(b))
      [] IsAlg(a) /\ IsAlg(b) ->
            Root(Q(Coef(a)[2] * Coef(b)[2], Coef(a)[3] * Coef(b)[3]), Rad(a) * Rad(b))
      [] IsFinite(a) /\ IsFinite(b) /\ (IsTerm(a) \/ IsTerm(b)) ->
            IF a = Zero \/ b = Zero THEN Zero
            ELSE IF a = One THEN b ELSE IF b = One THEN a ELSE <<"mul", a, b>>

\* f64 /.
Div(a, b) ==
    CASE IsNaN(a) \/ IsNaN(b) -> NaN
      [] IsInf(a) /\ IsInf(b) -> NaN
      [] IsInf(a) /\ IsAlg(b) -> SignedInf(IF Sign(b) < 0 THEN -Sign(a) ELSE Sign(a))
      [] IsFinite(a) /\ IsInf(b) -> Zero
      [] IsAlg(a) /\ IsAlg(b) ->
            IF Sign(b) = 0
            THEN (IF Sign(a) = 0 THEN NaN ELSE SignedInf(Sign(a)))
            ELSE Mul(a, Inv(b))
      [] IsFinite(a) /\ IsFinite(b) /\ (IsTerm(a) \/ IsTerm(b)) /\ b # Zero ->
            IF a = Zero THEN Zero ELSE IF b = One THEN a ELSE <<"div", a, b>>

\* f64::sqrt: sqrt(n/d) = sqrt(n * d) / d.
Sqrt(a) ==
    CASE IsNaN(a) -> NaN
      [] IsInf(a) -> IF Sign(a) > 0 THEN PInf ELSE NaN
      [] IsQ(a) -> IF Sign(a) < 0 THEN NaN ELSE Root(Q(1, a[3]), a[2] * a[3])
      [] IsSurd(a) -> IF Sign(a) < 0 THEN NaN ELSE <<"sqrt", a>>
      [] IsTerm(a) -> <<"sqrt", a>>

\* f64::atan: atan(0) = 0, atan(+-Inf) = +-pi/2.
ATan(a) ==
    CASE IsNaN(a) -> NaN
      [] a = Zero -> Zero
      [] OTHER -> <<"atan", a>>

\* f64::acos: NaN outside [-1, 1], acos(1) = 0.
ACos(a) ==
    CASE IsNaN(a) -> NaN
      [] IsInf(a) -> NaN
      [] IsAlg(a) ->
            IF Coef(a)[2] * Coef(a)[2] * Rad(a) > Coef(a)[3] * Coef(a)[3] THEN NaN
            ELSE IF a = One THEN Zero ELSE <<"acos", a>>
      [] IsTerm(a) -> <<"acos", a>>

\* f64 a > 0.0 (false for NaN).
GtZero(a) ==
    CASE IsNaN(a) -> FALSE
      [] IsInf(a) -> Sign(a) > 0
      [] IsAlg(a) -> Sign(a) > 0

\* f64 a == 0.0 (false for NaN).
EqZero(a) == a = Zero

(***************************************************************************)
(* Vector2D and Vector3D: records of f64 fields.  Option<T> is None or     *)
(* Some(v); a call that panics has the outcome Panic.                      *)
(***************************************************************************)
None == <<"None">>
Some(v) == <<"Some", v>>
Panic == <<"panic">>
Ok(v) == <<"ok", v>>

Vector3D_new(x, y, z) == [x |-> x, y |-> y, z |-> z]
Vector2D_new(x, y) == [x |-> x, y |-> y]

Is3D(v) == DOMAIN v = {"x", "y", "z"}
Is2D(v) == DOMAIN v = {"x", "y"}

Vector3D_i == Vector3D_new(One, Zero, Zero)
Vector3D_j == Vector3D_new(Zero, One, Zero)
Vector3D_k == Vector3D_new(Zero, Zero, One)
Vector3D_origin == Vector3D_new(Zero, Zero, Zero)
Vector2D_i == Vector2D_new(One, Zero)
Vector2D_j == Vector2D_new(Zero, One)
Vector2D_origin == Vector2D_new(Zero, Zero)

Vector3D_select(comp, value) ==
    CASE comp \in {"i", "x"} -> Some(Vector3D_new(value, Zero, Zero))
      [] comp \in {"j", "y"} -> Some(Vector3D_new(Zero, value, Zero))
      [] comp \in {"k", "z"} -> Some(Vector3D_new(Zero, Zero, value))
      [] OTHER -> None

\* Faulty variant: the labels matched without regard to case.
Vector2D_select_anycase(comp, value) ==
    CASE comp \in {"i", "x", "I", "X"} -> Some(Vector2D_new(value, Zero))
      [] comp \in {"j", "y", "J", "Y"} -> Some(Vector2D_new(Zero, value))
      [] OTHER -> None

Vector2D_select(comp, value) ==
    CASE comp \in {"i", "x"} -> Some(Vector2D_new(value, Zero))
      [] comp \in {"j", "y"} -> Some(Vector2D_new(Zero, value))
      [] OTHER -> None

\* Faulty variant: the z term left out.
Vector3D_dot_noz(v, other) == Add(Mul(v.x, other.x), Mul(v.y, other.y))

Vector3D_dot(v, other) ==
    Add(Add(Mul(v.x, other.x), Mul(v.y, other.y)), Mul(v.z, other.z))

Vector2D_dot(v, other) == Add(Mul(v.x, other.x), Mul(v.y, other.y))

\* Faulty variant: the left-handed product (every component negated).
Vector3D_cross_lefthanded(v, other) ==
    [x |-> Add(Mul(v.z, other.y), Mul(Neg(v.y), other.z)),
     y |-> Add(Mul(v.x, other.z), Mul(Neg(v.z), other.x)),
     z |-> Add(Mul(v.y, other.x), Mul(Neg(v.x), other.y))]

\* Faulty variant: the minus sign of the z component lost.
Vector3D_cross_zplus(v, other) ==
    [x |-> Add(Mul(v.y, other.z), Mul(Neg(v.z), other.y)),
     y |-> Add(Mul(v.z, other.x), Mul(Neg(v.x), other.z)),
     z |-> Add(Mul(v.x, other.y), Mul(v.y, other.x))]

Vector3D_cross(v, other) ==
    [x |-> Add(Mul(v.y, other.z), Mul(Neg(v.z), other.y)),
     y |-> Add(Mul(v.z, other.x), Mul(Neg(v.x), other.z)),
     z |-> Add(Mul(v.x, other.y), Mul(Neg(v.y), other.x))]

Vector3D_scale_comps_by_comps(v, other) ==
    [x |-> Mul(v.x, other.x), y |-> Mul(v.y, other.y), z |-> Mul(v.z, other.z)]

Vector2D_scale_comps_by_comps(v, other) ==
    [x |-> Mul(v.x, other.x), y |-> Mul(v.y, other.y)]

\* Faulty variant: the operands of the middle difference in the other order.
Vector3D_triple_scalar_prod_swapped(v, oth_1, oth_2) ==
    Add(Add(Mul(v.x, Sub(Mul(oth_1.y, oth_2.z), Mul(oth_1.z, oth_2.y))),
            Mul(v.y, Sub(Mul(oth_1.x, oth_2.z), Mul(oth_1.z, oth_2.x)))),
        Mul(v.z, Sub(Mul(oth_1.x, oth_2.y), Mul(oth_1.y, oth_2.x))))

Vector3D_triple_scalar_prod(v, oth_1, oth_2) ==
    Add(Add(Mul(v.x, Sub(Mul(oth_1.y, oth_2.z), Mul(oth_1.z, oth_2.y))),
            Mul(v.y, Sub(Mul(oth_1.z, oth_2.x), Mul(oth_1.x, oth_2.z)))),
        Mul(v.z, Sub(Mul(oth_1.x, oth_2.y), Mul(oth_1.y, oth_2.x))))

Vector3D_triple_vector_prod(v, oth_1, oth_2) ==
    LET temp == Vector3D_cross(oth_1, oth_2)
    IN  Vector3D_cross(v, temp)

Vector3D_squared_magnitude(v) ==
    Add(Add(Mul(v.x, v.x), Mul(v.y, v.y)), Mul(v.z, v.z))

Vector3D_magnitude(v) == Sqrt(Vector3D_squared_magnitude(v))

Vector2D_squared_magnitude(v) == Add(Mul(v.x, v.x), Mul(v.y, v.y))

Vector2D_magnitude(v) == Sqrt(Vector2D_squared_magnitude(v))

Vector3D_scale(v, value) ==
    [x |-> Mul(v.x, value), y |-> Mul(v.y, value), z |-> Mul(v.z, value)]

Vector2D_scale(v, value) == [x |-> Mul(v.x, value), y |-> Mul(v.y, value)]

\* to_unit(&mut self): the receiver after the call.
\* Faulty variant: z left unscaled.
Vector3D_to_unit_skipz(v) ==
    LET mag == Vector3D_magnitude(v)
    IN  IF GtZero(mag)
        THEN LET inv_mag == Div(One, mag)
             IN  [x |-> Mul(v.x, inv_mag), y |-> Mul(v.y, inv_mag), z |-> v.z]
        ELSE v

Vector3D_to_unit(v) ==
    LET mag == Vector3D_magnitude(v)
    IN  IF GtZero(mag)
        THEN LET inv_mag == Div(One, mag)
             IN  [x |-> Mul(v.x, inv_mag), y |-> Mul(v.y, inv_mag),
                  z |-> Mul(v.z, inv_mag)]
        ELSE v

Vector2D_to_unit(v) ==
    LET mag == Vector2D_magnitude(v)
    IN  IF GtZero(mag)
        THEN LET inv_mag == Div(One, mag)
             IN  [x |-> Mul(v.x, inv_mag), y |-> Mul(v.y, inv_mag)]
        ELSE v

\* Faulty variant: the guard mag >= 0.0 in place of mag > 0.0.
Vector3D_normalized_ge(v) ==
    LET mag == Vector3D_magnitude(v)
    IN  IF ~IsNaN(mag) /\ Sign(mag) >= 0
        THEN LET inv_mag == Div(One, mag)
             IN  Some([x |-> Mul(v.x, inv_mag), y |-> Mul(v.y, inv_mag),
                       z |-> Mul(v.z, inv_mag)])
        ELSE None

Vector3D_normalized(v) ==
    LET mag == Vector3D_magnitude(v)
    IN  IF GtZero(mag)
        THEN LET inv_mag == Div(One, mag)
             IN  Some([x |-> Mul(v.x, inv_mag), y |-> Mul(v.y, inv_mag),
                       z |-> Mul(v.z, inv_mag)])
        ELSE None

Vector2D_normalized(v) ==
    LET mag == Vector2D_magnitude(v)
    IN  IF GtZero(mag)
        THEN LET inv_mag == Div(One, mag)
             IN  Some([x |-> Mul(v.x, inv_mag), y |-> Mul(v.y, inv_mag)])
        ELSE None

Vector3D_add(v, rhs) ==
    [x |-> Add(v.x, rhs.x), y |-> Add(v.y, rhs.y), z |-> Add(v.z, rhs.z)]

\* add_assign(&mut self, rhs): the receiver after the call, field by field.
Vector3D_add_assign(v, rhs) ==
    LET s1 == [v EXCEPT !.x = Add(v.x, rhs.x)]
        s2 == [s1 EXCEPT !.y = Add(s1.y, rhs.y)]
    IN  [s2 EXCEPT !.z = Add(s2.z, rhs.z)]

Vector3D_sub(v, rhs) ==
    [x |-> Sub(v.x, rhs.x), y |-> Sub(v.y, rhs.y), z |-> Sub(v.z, rhs.z)]

Vector3D_sub_assign(v, rhs) ==
    LET s1 == [v EXCEPT !.x = Sub(v.x, rhs.x)]
        s2 == [s1 EXCEPT !.y = Sub(s1.y, rhs.y)]
    IN  [s2 EXCEPT !.z = Sub(s2.z, rhs.z)]

Vector3D_mul(v, rhs) ==
    [x |-> Mul(v.x, rhs.x), y |-> Mul(v.y, rhs.y), z |-> Mul(v.z, rhs.z)]

\* Faulty variant: z multiplied by rhs.y.
Vector3D_mul_assign_slip(v, rhs) ==
    LET s1 == [v EXCEPT !.x = Mul(v.x, rhs.x)]
        s2 == [s1 EXCEPT !.y = Mul(s1.y, rhs.y)]
    IN  [s2 EXCEPT !.z = Mul(s2.z, rhs.y)]

Vector3D_mul_assign(v, rhs) ==
    LET s1 == [v EXCEPT !.x = Mul(v.x, rhs.x)]
        s2 == [s1 EXCEPT !.y = Mul(s1.y, rhs.y)]
    IN  [s2 EXCEPT !.z = Mul(s2.z, rhs.z)]

Vector3D_div(v, rhs) ==
    [x |-> Div(v.x, rhs.x), y |-> Div(v.y, rhs.y), z |-> Div(v.z, rhs.z)]

Vector3D_div_assign(v, rhs) ==
    LET s1 == [v EXCEPT !.x = Div(v.x, rhs.x)]
        s2 == [s1 EXCEPT !.y = Div(s1.y, rhs.y)]
    IN  [s2 EXCEPT !.z = Div(s2.z, rhs.z)]

Vector2D_add(v, rhs) == [x |-> Add(v.x, rhs.x), y |-> Add(v.y, rhs.y)]

Vector2D_add_assign(v, rhs) ==
    LET s1 == [v EXCEPT !.x = Add(v.x, rhs.x)]
    IN  [s1 EXCEPT !.y = Add(s1.y, rhs.y)]

Vector2D_sub(v, rhs) == [x |-> Sub(v.x, rhs.x), y |-> Sub(v.y, rhs.y)]

Vector2D_sub_assign(v, rhs) ==
    LET s1 == [v EXCEPT !.x = Sub(v.x, rhs.x)]
    IN  [s1 EXCEPT !.y = Sub(s1.y, rhs.y)]

Vector2D_mul(v, rhs) == [x |-> Mul(v.x, rhs.x), y |-> Mul(v.y, rhs.y)]

Vector2D_mul_assign(v, rhs) ==
    LET s1 == [v EXCEPT !.x = Mul(v.x, rhs.x)]
    IN  [s1 EXCEPT !.y = Mul(s1.y, rhs.y)]

Vector2D_div(v, rhs) == [x |-> Div(v.x, rhs.x), y |-> Div(v.y, rhs.y)]

Vector2D_div_assign(v, rhs) ==
    LET s1 == [v EXCEPT !.x = Div(v.x, rhs.x)]
    IN  [s1 EXCEPT !.y = Div(s1.y, rhs.y)]

\* Faulty variant: the receiver scaled instead of the other vector.
Vector3D_add_scaled_recv(v, other, value) ==
    Vector3D_add(Vector3D_scale(v, value), other)

Vector3D_add_scaled(v, other, value) == Vector3D_add(v, Vector3D_scale(other, value))

Vector3D_scale_add(v, value, other) == Vector3D_add(Vector3D_scale(v, value), other)

Vector2D_add_scaled(v, other, value) == Vector2D_add(v, Vector2D_scale(other, value))

Vector2D_scale_add(v, value, other) == Vector2D_add(Vector2D_scale(v, value), other)

\* Faulty variant: x and y exchanged.
Vector3D_to_2d_swapped(v) == [x |-> v.y, y |-> v.x]

Vector3D_to_2d(v) == [x |-> v.x, y |-> v.y]

Vector2D_to_3d(v, z) == [x |-> v.x, y |-> v.y, z |-> z]

\* as_cylindrical(&self) -> Self: both fields are computed from the receiver.
Vector2D_as_cylindrical(v) ==
    [x |-> Sqrt(Add(Mul(v.x, v.x), Mul(v.y, v.y))),
     y |-> ATan(Div(v.y, v.x))]

\* as_cylindrical(&mut self): the receiver after the two assignments; the
\* second reads the x the first has stored.
Vector3D_as_cylindrical(v) ==
    LET s1 == [v EXCEPT !.x = Sqrt(Add(Mul(v.x, v.x), Mul(v.y, v.y)))]
    IN  [s1 EXCEPT !.y = ATan(Div(s1.y, s1.x))]

\* as_spherical(&mut self): the receiver after the three assignments; each
\* reads the fields as the earlier ones have left them, and the second calls
\* magnitude() on the receiver whose x is already the radius.
Vector3D_as_spherical(v) ==
    LET s1 == [v EXCEPT !.x = Vector3D_magnitude(v)]
        s2 == [s1 EXCEPT !.y = ACos(Div(s1.z, Vector3D_magnitude(s1)))]
    IN  [s2 EXCEPT !.z = ATan(Div(s2.y, s2.x))]

\* Faulty variant: every index past 1 reads z.
Vector3D_index_wrap(v, index) ==
    CASE index = 0 -> Ok(v.x)
      [] index = 1 -> Ok(v.y)
      [] OTHER -> Ok(v.z)

\* impl Index<usize> for Vector3D.
Vector3D_index(v, index) ==
    CASE index = 0 -> Ok(v.x)
      [] index = 1 -> Ok(v.y)
      [] index = 2 -> Ok(v.z)
      [] OTHER -> Panic

\* f64 == (PartialEq for f64): NaN is equal to nothing, itself included.
F64_eq(a, b) == ~IsNaN(a) /\ ~IsNaN(b) /\ a = b

\* #[derive(PartialEq)]: == on vectors compares the fields with f64 ==.
Vector3D_eq(v, other) ==
    F64_eq(v.x, other.x) /\ F64_eq(v.y, other.y) /\ F64_eq(v.z, other.z)

Vector2D_eq(v, other) == F64_eq(v.x, other.x) /\ F64_eq(v.y, other.y)

\* The operators of either type.
VecAdd(v, rhs) == IF Is3D(v) THEN Vector3D_add(v, rhs) ELSE Vector2D_add(v, rhs)
VecSub(v, rhs) == IF Is3D(v) THEN Vector3D_sub(v, rhs) ELSE Vector2D_sub(v, rhs)
VecMul(v, rhs) == IF Is3D(v) THEN Vector3D_mul(v, rhs) ELSE Vector2D_mul(v, rhs)
VecDiv(v, rhs) == IF Is3D(v) THEN Vector3D_div(v, rhs) ELSE Vector2D_div(v, rhs)
VecAddAssign(v, rhs) ==
    IF Is3D(v) THEN Vector3D_add_assign(v, rhs) ELSE Vector2D_add_assign(v, rhs)
VecSubAssign(v, rhs) ==
    IF Is3D(v) THEN Vector3D_sub_assign(v, rhs) ELSE Vector2D_sub_assign(v, rhs)
VecMulAssign(v, rhs) ==
    IF Is3D(v) THEN Vector3D_mul_assign(v, rhs) ELSE Vector2D_mul_assign(v, rhs)
VecDivAssign(v, rhs) ==
    IF Is3D(v) THEN Vector3D_div_assign(v, rhs) ELSE Vector2D_div_assign(v, rhs)
ScaleCompsByCompsOf(v, other) ==
    IF Is3D(v) THEN Vector3D_scale_comps_by_comps(v, other)
               ELSE Vector2D_scale_comps_by_comps(v, other)

\* magnitude() and scale() of either type.
MagnitudeOf(v) == IF Is3D(v) THEN Vector3D_magnitude(v) ELSE Vector2D_magnitude(v)
ScaleOf(v, value) == IF Is3D(v) THEN Vector3D_scale(v, value) ELSE Vector2D_scale(v, value)


(***************************************************************************)
(* The state: self is the vector object in hand (a Vector2D or a Vector3D),*)
(* arg1 and arg2 are the other vectors the program holds and passes as     *)
(* arguments, call is the last call made (its operation, receiver,         *)
(* arguments and result), conv counts the in-place (&mut self) calls made  *)
(* on self since it was constructed.                                       *)
(***************************************************************************)
\* Field values are multiples of 1/2 up to MaxHalves/2, and NaN, +Inf, -Inf.
MaxHalves == 3
\* In-place calls explored on one object.
MaxMut == 1
\* Indices 0..MaxIndex are tried.
MaxIndex == 4

Finites == {Q(i, 2) : i \in -MaxHalves..MaxHalves}
Floats == Finites \cup {NaN, PInf, NInf}
Vectors3D == {Vector3D_new(x, y, z) : x \in Floats, y \in Floats, z \in Floats}
Vectors2D == {Vector2D_new(x, y) : x \in Floats, y \in Floats}

Labels == {"i", "j", "k", "x", "y", "z", "I", "X", "Z", "a", "xy", ""}
SelectValues == {Zero, One, Q(-981, 100), NaN, PInf}

\* Every field is a rational, NaN or an infinity (not a term).
Plain(v) == \A c \in DOMAIN v : ~IsTerm(v[c])

NoCall == [op |-> "none"]

\* Vector3D::new(x, y, z) or Vector2D::new(x, y) has constructed self.
Init ==
    /\ self \in Vectors3D \cup Vectors2D
    /\ arg1 = self
    /\ arg2 = self
    /\ call = NoCall
    /\ conv = 0

\* Vector3D::select / Vector2D::select (associated functions: no receiver).
Select3 ==
    \E comp \in Labels, value \in SelectValues :
        /\ call' = [op |-> "select", dim |-> 3, comp |-> comp, value |-> value,
                    ret |-> Vector3D_select(comp, value)]
        /\ UNCHANGED <<self, arg1, arg2, conv>>

Select2 ==
    \E comp \in Labels, value \in SelectValues :
        /\ call' = [op |-> "select", dim |-> 2, comp |-> comp, value |-> value,
                    ret |-> Vector2D_select(comp, value)]
        /\ UNCHANGED <<self, arg1, arg2, conv>>

Normalized ==
    /\ Plain(self)
    /\ call' = [op |-> "normalized", recv |-> self,
                ret |-> IF Is3D(self) THEN Vector3D_normalized(self)
                                      ELSE Vector2D_normalized(self)]
    /\ UNCHANGED <<self, arg1, arg2, conv>>

ToUnit ==
    /\ Plain(self)
    /\ conv < MaxMut
    /\ self' = IF Is3D(self) THEN Vector3D_to_unit(self) ELSE Vector2D_to_unit(self)
    /\ call' = [op |-> "to_unit", recv |-> self]
    /\ conv' = conv + 1
    /\ UNCHANGED <<arg1, arg2>>

Index ==
    /\ Is3D(self)
    /\ \E index \in 0..MaxIndex :
        call' = [op |-> "index", recv |-> self, index |-> index,
                 ret |-> Vector3D_index(self, index)]
    /\ UNCHANGED <<self, arg1, arg2, conv>>

To2d ==
    /\ Is3D(self)
    /\ call' = [op |-> "to_2d", recv |-> self, ret |-> Vector3D_to_2d(self)]
    /\ UNCHANGED <<self, arg1, arg2, conv>>

To3d ==
    /\ Is2D(self)
    /\ \E z \in Floats :
        call' = [op |-> "to_3d", recv |-> self, z |-> z,
                 ret |-> Vector2D_to_3d(self, z)]
    /\ UNCHANGED <<self, arg1, arg2, conv>>

\* v3.to_2d().to_3d(z): to_3d called on the Vector2D the last call returned.
To2dTo3d ==
    /\ call.op = "to_2d"
    /\ \E z \in Floats :
        call' = [op |-> "to_2d.to_3d", recv |-> call.recv, mid |-> call.ret,
                 z |-> z, ret |-> Vector2D_to_3d(call.ret, z)]
    /\ UNCHANGED <<self, arg1, arg2, conv>>

\* v2.to_3d(z).to_2d(): to_2d called on the Vector3D the last call returned.
To3dTo2d ==
    /\ call.op = "to_3d"
    /\ call' = [op |-> "to_3d.to_2d", recv |-> call.recv, mid |-> call.ret,
                z |-> call.z, ret |-> Vector3D_to_2d(call.ret)]
    /\ UNCHANGED <<self, arg1, arg2, conv>>

\* Vector2D::as_cylindrical(&self) returns a vector; Vector3D::as_cylindrical
\* (&mut self) changes the receiver.
AsCylindrical2 ==
    /\ Is2D(self) /\ Plain(self)
    /\ call' = [op |-> "as_cylindrical", recv |-> self,
                ret |-> Vector2D_as_cylindrical(self)]
    /\ UNCHANGED <<self, arg1, arg2, conv>>

AsCylindrical3 ==
    /\ Is3D(self) /\ Plain(self)
    /\ conv < MaxMut
    /\ self' = Vector3D_as_cylindrical(self)
    /\ call' = [op |-> "as_cylindrical", recv |-> self]
    /\ conv' = conv + 1
    /\ UNCHANGED <<arg1, arg2>>

AsSpherical ==
    /\ Is3D(self) /\ Plain(self)
    /\ conv < MaxMut
    /\ self' = Vector3D_as_spherical(self)
    /\ call' = [op |-> "as_spherical", recv |-> self]
    /\ conv' = conv + 1
    /\ UNCHANGED <<arg1, arg2>>

Next ==
    \/ Normalized \/ ToUnit \/ Index
    \/ To2d \/ To3d \/ To2dTo3d \/ To3dTo2d
    \/ AsCylindrical2 \/ AsCylindrical3 \/ AsSpherical

Spec == Init /\ [][Next]_vars

\* The associated functions Vector3D::select and Vector2D::select alone.
InitSelect ==
    /\ self = Vector3D_origin
    /\ arg1 = self
    /\ arg2 = self
    /\ call = NoCall
    /\ conv = 0

NextSelect == Select3 \/ Select2

SpecSelect == InitSelect /\ [][NextSelect]_vars

(***************************************************************************)
(* The products: dot, cross and the two triple products, applied to the    *)
(* vectors the program holds.                                              *)
(***************************************************************************)
\* The crate documentation's moment example (src/src/lib.rs): the force f,
\* the position r and the moment's z it asserts.
Moment_f == Vector3D_new(Num(400), Num(693), Zero)
Moment_r == Vector3D_new(Q(-1, 5), Q(4, 25), Zero)
Moment_z == Q(-1013, 5)

\* Fields of the operands of dot and cross: the integers -1..MaxBin, NaN, +Inf.
MaxBin == 1
BinFloats == {Num(i) : i \in -1..MaxBin} \cup {NaN, PInf}
BinVectors3D ==
    {Vector3D_new(x, y, z) : x \in BinFloats, y \in BinFloats, z \in BinFloats}
        \cup {Moment_f, Moment_r}
BinVectors2D == {Vector2D_new(x, y) : x \in BinFloats, y \in BinFloats}

InitBinary ==
    /\ \/ self \in BinVectors3D /\ arg1 \in BinVectors3D
       \/ self \in BinVectors2D /\ arg1 \in BinVectors2D
    /\ arg2 = arg1
    /\ call = NoCall
    /\ conv = 0

Dot ==
    /\ call' = [op |-> "dot", recv |-> self, other |-> arg1,
                ret |-> IF Is3D(self) THEN Vector3D_dot(self, arg1)
                                      ELSE Vector2D_dot(self, arg1)]
    /\ UNCHANGED <<self, arg1, arg2, conv>>

Cross ==
    /\ Is3D(self)
    /\ call' = [op |-> "cross", recv |-> self, other |-> arg1,
                ret |-> Vector3D_cross(self, arg1)]
    /\ UNCHANGED <<self, arg1, arg2, conv>>

NextBinary == Dot \/ Cross

SpecBinary == InitBinary /\ [][NextBinary]_vars

\* Fields of the operands of the triple products: the integers -1..MaxTriple;
\* the receiver may also hold NaN or an infinity.
MaxTriple == 0
TripleFloats == {Num(i) : i \in -1..MaxTriple}
TripleVectors ==
    {Vector3D_new(x, y, z) : x \in TripleFloats, y \in TripleFloats, z \in TripleFloats}
SpecialVectors ==
    {Vector3D_new(NaN, One, Num(-1)), Vector3D_new(One, PInf, Zero),
     Vector3D_new(Num(-1), One, NInf), Vector3D_new(PInf, NInf, One)}

InitTriple ==
    /\ self \in TripleVectors \cup SpecialVectors
    /\ arg1 \in TripleVectors
    /\ arg2 \in TripleVectors
    /\ call = NoCall
    /\ conv = 0

TripleScalarProd ==
    /\ call' = [op |-> "triple_scalar_prod", recv |-> self, oth_1 |-> arg1, oth_2 |-> arg2,
                ret |-> Vector3D_triple_scalar_prod(self, arg1, arg2)]
    /\ UNCHANGED <<self, arg1, arg2, conv>>

TripleVectorProd ==
    /\ call' = [op |-> "triple_vector_prod", recv |-> self, oth_1 |-> arg1, oth_2 |-> arg2,
                ret |-> Vector3D_triple_vector_prod(self, arg1, arg2)]
    /\ UNCHANGED <<self, arg1, arg2, conv>>

NextTriple == TripleScalarProd \/ TripleVectorProd

SpecTriple == InitTriple /\ [][NextTriple]_vars

(***************************************************************************)
(* The operators + - * / and += -= *= /= on self and a.                     *)
(***************************************************************************)
\* Fields of the operands: the integers -1..MaxOp, NaN, +Inf.
MaxOp == 1
OpFloats == {Num(i) : i \in -1..MaxOp} \cup {NaN, PInf}
OpVectors3D == {Vector3D_new(x, y, z) : x \in OpFloats, y \in OpFloats, z \in OpFloats}
OpVectors2D == {Vector2D_new(x, y) : x \in OpFloats, y \in OpFloats}

InitOps ==
    /\ \/ self \in OpVectors3D /\ arg1 \in OpVectors3D
       \/ self \in OpVectors2D /\ arg1 \in OpVectors2D
    /\ arg2 = arg1
    /\ call = NoCall
    /\ conv = 0

\* self + a, self - a, self * a, self / a: the operands are Copy, the result
\* is a new vector.
BinaryOp(op, ret) ==
    /\ call' = [op |-> op, recv |-> self, rhs |-> arg1, ret |-> ret]
    /\ UNCHANGED <<self, arg1, arg2, conv>>

\* self += a, ...: the receiver is changed in place.
AssignOp(op, post) ==
    /\ conv < MaxMut
    /\ self' = post
    /\ call' = [op |-> op, recv |-> self, rhs |-> arg1]
    /\ conv' = conv + 1
    /\ UNCHANGED <<arg1, arg2>>

OpAdd == BinaryOp("add", VecAdd(self, arg1))
OpSub == BinaryOp("sub", VecSub(self, arg1))
OpMul == BinaryOp("mul", VecMul(self, arg1))
OpDiv == BinaryOp("div", VecDiv(self, arg1))
OpAddAssign == AssignOp("add_assign", VecAddAssign(self, arg1))
OpSubAssign == AssignOp("sub_assign", VecSubAssign(self, arg1))
OpMulAssign == AssignOp("mul_assign", VecMulAssign(self, arg1))
OpDivAssign == AssignOp("div_assign", VecDivAssign(self, arg1))

NextOps ==
    \/ OpAdd \/ OpSub \/ OpMul \/ OpDiv
    \/ OpAddAssign \/ OpSubAssign \/ OpMulAssign \/ OpDivAssign

SpecOps == InitOps /\ [][NextOps]_vars

(***************************************************************************)
(* add_scaled and scale_add                                                *)
(***************************************************************************)
ScaledFloats == OpFloats

\* self.add_scaled(a, value)
AddScaled ==
    \E value \in ScaledFloats :
        /\ call' = [op |-> "add_scaled", recv |-> self, other |-> arg1, value |-> value,
                    ret |-> IF Is3D(self) THEN Vector3D_add_scaled(self, arg1, value)
                                          ELSE Vector2D_add_scaled(self, arg1, value)]
        /\ UNCHANGED <<self, arg1, arg2, conv>>

\* self.scale_add(value, a)
ScaleAdd ==
    \E value \in ScaledFloats :
        /\ call' = [op |-> "scale_add", recv |-> self, other |-> arg1, value |-> value,
                    ret |-> IF Is3D(self) THEN Vector3D_scale_add(self, value, arg1)
                                          ELSE Vector2D_scale_add(self, value, arg1)]
        /\ UNCHANGED <<self, arg1, arg2, conv>>

NextScaled == AddScaled \/ ScaleAdd

SpecScaled == InitOps /\ [][NextScaled]_vars

(***************************************************************************)
(* Compositions of cross with scale, dot and triple_scalar_prod            *)
(***************************************************************************)
InitCross ==
    /\ self \in BinVectors3D
    /\ arg1 \in BinVectors3D
    /\ arg2 = arg1
    /\ call = NoCall
    /\ conv = 0

\* self.cross(a) and a.cross(self).scale(-1.0)
CrossReversed ==
    /\ call' = [op |-> "cross/cross.scale", recv |-> self, other |-> arg1,
                ret |-> Vector3D_cross(self, arg1),
                rev |-> Vector3D_scale(Vector3D_cross(arg1, self), Num(-1))]
    /\ UNCHANGED <<self, arg1, arg2, conv>>

\* self.dot(self.cross(a)) and a.dot(self.cross(a))
CrossDot ==
    /\ call' = [op |-> "cross.dot", recv |-> self, other |-> arg1,
                cross |-> Vector3D_cross(self, arg1),
                ret_recv |-> Vector3D_dot(self, Vector3D_cross(self, arg1)),
                ret_other |-> Vector3D_dot(arg1, Vector3D_cross(self, arg1))]
    /\ UNCHANGED <<self, arg1, arg2, conv>>

\* self.triple_scalar_prod(self, a)
TripleSelf ==
    /\ call' = [op |-> "triple_scalar_prod.self", recv |-> self, other |-> arg1,
                ret |-> Vector3D_triple_scalar_prod(self, self, arg1)]
    /\ UNCHANGED <<self, arg1, arg2, conv>>

\* self.cross(self)
CrossSelf ==
    /\ call' = [op |-> "cross.self", recv |-> self, other |-> self,
                ret |-> Vector3D_cross(self, self)]
    /\ UNCHANGED <<self, arg1, arg2, conv>>

NextCross == CrossReversed \/ CrossDot \/ TripleSelf \/ CrossSelf

SpecCross == InitCross /\ [][NextCross]_vars

(***************************************************************************)
(* Claims                                                                  *)
(***************************************************************************)
HasNaN(v) == \E c \in DOMAIN v : IsNaN(v[c])

\* C1 as stated: normalized() is None if and only if magnitude() == 0, and a
\* present result is the receiver scaled by the positive factor 1/magnitude
\* and has magnitude 1.
C1_Original ==
    call.op = "normalized" =>
        LET mag == MagnitudeOf(call.recv)
        IN  /\ (call.ret = None <=> EqZero(mag))
            /\ (call.ret # None =>
                    /\ GtZero(Div(One, mag))
                    /\ call.ret[2] = ScaleOf(call.recv, Div(One, mag))
                    /\ MagnitudeOf(call.ret[2]) = One)

\* C1 amended: normalized() is None if and only if magnitude() is 0 or NaN
\* (that is, magnitude() > 0 is false); a present result is the receiver
\* scaled by 1/magnitude, and when the magnitude is finite that factor is
\* positive and the result has magnitude 1.
C1_NormalizedAbsent ==
    call.op = "normalized" =>
        LET mag == MagnitudeOf(call.recv)
        IN  /\ (call.ret = None <=> (EqZero(mag) \/ IsNaN(mag)))
            /\ (call.ret # None =>
                    call.ret[2] = ScaleOf(call.recv, Div(One, mag)))
            /\ (call.ret # None /\ IsFinite(mag) =>
                    /\ GtZero(Div(One, mag))
                    /\ MagnitudeOf(call.ret[2]) = One)

\* A vector with an irrational magnitude has been normalized.
C1_Witness ==
    /\ call.op = "normalized"
    /\ call.ret # None
    /\ IsSurd(MagnitudeOf(call.recv))
    /\ MagnitudeOf(call.ret[2]) = One

\* C2 as stated: after as_spherical() on (x0, y0, z0) with original magnitude
\* r, x = r, y = acos(z0 / r) and z = atan(y / x) over the new y and x.
C2_Original ==
    call.op = "as_spherical" =>
        LET r == Vector3D_magnitude(call.recv)
        IN  /\ self.x = r
            /\ self.y = ACos(Div(call.recv.z, r))
            /\ self.z = ATan(Div(self.y, self.x))

\* C3 as stated: after Vector3D::as_cylindrical() on (x0, y0, z0),
\* x = sqrt(x0^2 + y0^2), y = atan(y0 / x0) and z = z0.
C3_Original ==
    (call.op = "as_cylindrical" /\ Is3D(call.recv)) =>
        /\ self.x = Sqrt(Add(Mul(call.recv.x, call.recv.x), Mul(call.recv.y, call.recv.y)))
        /\ self.y = ATan(Div(call.recv.y, call.recv.x))
        /\ self.z = call.recv.z

\* The axis a valid label names; "" for any other label.
AxisOf(comp, dim) ==
    CASE comp = "i" \/ comp = "x" -> "x"
      [] comp = "j" \/ comp = "y" -> "y"
      [] dim = 3 /\ (comp = "k" \/ comp = "z") -> "z"
      [] OTHER -> ""

AxesOf(dim) == IF dim = 3 THEN {"x", "y", "z"} ELSE {"x", "y"}

\* C4: select(label, value) returns the vector with the labelled axis set to
\* value and every other axis 0 exactly when the label is valid for the type
\* (matched case-sensitively), and None for every other label;
\* Vector2D::select("z", 1.0) is None and Vector3D::select("z", 1.0) is (0, 0, 1).
C4_Select ==
    call.op = "select" =>
        LET axis == AxisOf(call.comp, call.dim)
        IN  /\ (axis = "" <=> call.ret = None)
            /\ (axis # "" =>
                    /\ call.ret[1] = "Some"
                    /\ DOMAIN call.ret[2] = AxesOf(call.dim)
                    /\ \A c \in AxesOf(call.dim) :
                          call.ret[2][c] = IF c = axis THEN call.value ELSE Zero)
            /\ (call.comp = "z" /\ call.value = One =>
                    call.ret = IF call.dim = 2 THEN None ELSE Some(Vector3D_k))

\* Vector2D::select("z", 1.0) has returned None.
C4_Witness ==
    /\ call.op = "select" /\ call.dim = 2 /\ call.comp = "z" /\ call.value = One
    /\ call.ret = None

\* C5: indexing a Vector3D by 0, 1, 2 returns x, y, z; every index >= 3
\* panics instead of returning a value; indexing never modifies the vector.
C5_Index ==
    call.op = "index" =>
        /\ (call.index = 0 => call.ret = Ok(call.recv.x))
        /\ (call.index = 1 => call.ret = Ok(call.recv.y))
        /\ (call.index = 2 => call.ret = Ok(call.recv.z))
        /\ (call.index >= 3 => call.ret = Panic)
        /\ self = call.recv

\* An index past 3 has panicked.
C5_Witness == call.op = "index" /\ call.index > 3 /\ call.ret = Panic

\* C6 as stated: v3.to_2d().to_3d(v3.z) == v3 for every Vector3D v3 and
\* v2.to_3d(z).to_2d() == v2 for every Vector2D v2 and scalar z.
C6_Original ==
    /\ (call.op = "to_2d.to_3d" /\ call.z = call.recv.z => Vector3D_eq(call.ret, call.recv))
    /\ (call.op = "to_3d.to_2d" => Vector2D_eq(call.ret, call.recv))

\* C6 amended: the round trips return the receiver's fields unchanged (to_2d
\* drops only z, to_3d appends only z), and the result is == to the receiver
\* exactly when no field of the receiver is NaN.
C6_RoundTrip ==
    /\ (call.op = "to_2d.to_3d" =>
            /\ call.mid = [x |-> call.recv.x, y |-> call.recv.y]
            /\ call.ret = [x |-> call.recv.x, y |-> call.recv.y, z |-> call.z]
            /\ (call.z = call.recv.z =>
                    /\ call.ret = call.recv
                    /\ (Vector3D_eq(call.ret, call.recv) <=> ~HasNaN(call.recv))))
    /\ (call.op = "to_3d.to_2d" =>
            /\ call.mid = [x |-> call.recv.x, y |-> call.recv.y, z |-> call.z]
            /\ call.ret = call.recv
            /\ (Vector2D_eq(call.ret, call.recv) <=> ~HasNaN(call.recv)))

\* A Vector3D with three different fields has made the round trip.
C6_Witness ==
    /\ call.op = "to_2d.to_3d"
    /\ call.z = call.recv.z
    /\ call.recv.x # call.recv.y /\ call.recv.y # call.recv.z /\ call.recv.x # call.recv.z
    /\ Vector3D_eq(call.ret, call.recv)

\* The right-handed cross product of u and w, by the textbook formula.
RightHandedCross(u, w) ==
    [x |-> Sub(Mul(u.y, w.z), Mul(u.z, w.y)),
     y |-> Sub(Mul(u.z, w.x), Mul(u.x, w.z)),
     z |-> Sub(Mul(u.x, w.y), Mul(u.y, w.x))]

\* C7: a.cross(b) is the right-handed cross product
\* (a.y*b.z - a.z*b.y, a.z*b.x - a.x*b.z, a.x*b.y - a.y*b.x); in particular
\* Vector3D::i().cross(Vector3D::j()) == Vector3D::k() and
\* Vector2D::i().dot(Vector2D::j()) == 0.
C7_Cross ==
    /\ (call.op = "cross" => call.ret = RightHandedCross(call.recv, call.other))
    /\ (call.op = "cross" /\ call.recv = Vector3D_i /\ call.other = Vector3D_j =>
            Vector3D_eq(call.ret, Vector3D_k))
    /\ (call.op = "dot" /\ call.recv = Vector2D_i /\ call.other = Vector2D_j =>
            F64_eq(call.ret, Zero))

\* The cross product of two vectors in general position has been taken.
C7_Witness ==
    /\ call.op = "cross"
    /\ Plain(call.recv) /\ Plain(call.other)
    /\ \A c \in {"x", "y", "z"} : IsQ(call.ret[c]) /\ call.ret[c] # Zero

\* C8 as stated: the z of Vector3D::new(400.0, 693.0, 0.0).cross(
\* Vector3D::new(-0.2, 0.16, 0.0)) is the documentation example's -202.6.
C8_Original ==
    (call.op = "cross" /\ call.recv = Moment_f /\ call.other = Moment_r) =>
        F64_eq(call.ret.z, Moment_z)

\* C8 amended: the z of f.cross(r) is +202.6; the documentation example's
\* -202.6 is the z of r.cross(f), the product it takes.
C8_Golden ==
    /\ (call.op = "cross" /\ call.recv = Moment_f /\ call.other = Moment_r =>
            F64_eq(call.ret.z, Neg(Moment_z)))
    /\ (call.op = "cross" /\ call.recv = Moment_r /\ call.other = Moment_f =>
            F64_eq(call.ret.z, Moment_z))

\* f.cross(r) has been taken.
C8_Witness ==
    /\ call.op = "cross" /\ call.recv = Moment_f /\ call.other = Moment_r
    /\ call.ret.z = Q(1013, 5)

\* C9: s.triple_scalar_prod(a, b) has the value of s.dot(a.cross(b)), and
\* s.triple_vector_prod(a, b) is s.cross(a.cross(b)).
C9_Triple ==
    /\ (call.op = "triple_scalar_prod" =>
            call.ret = Vector3D_dot(call.recv, Vector3D_cross(call.oth_1, call.oth_2)))
    /\ (call.op = "triple_vector_prod" =>
            /\ call.ret = Vector3D_cross(call.recv, Vector3D_cross(call.oth_1, call.oth_2))
            /\ call.ret = RightHandedCross(call.recv,
                                           RightHandedCross(call.oth_1, call.oth_2)))

\* The triple scalar product of three independent vectors has been taken.
C9_Witness ==
    /\ call.op = "triple_scalar_prod"
    /\ IsQ(call.ret) /\ call.ret # Zero
    /\ \A c \in {"x", "y", "z"} : Vector3D_cross(call.oth_1, call.oth_2)[c] # Zero

\* C10: +, -, *, / work field by field (a * b is scale_comps_by_comps, a / b
\* divides matching fields), and each of +=, -=, *=, /= leaves the receiver
\* with what the binary operator returns for the same operands.
C10_Operators ==
    /\ (call.op \in {"add", "sub", "mul", "div"} =>
            /\ DOMAIN call.ret = DOMAIN call.recv
            /\ \A c \in DOMAIN call.recv :
                  call.ret[c] = CASE call.op = "add" -> Add(call.recv[c], call.rhs[c])
                                  [] call.op = "sub" -> Sub(call.recv[c], call.rhs[c])
                                  [] call.op = "mul" -> Mul(call.recv[c], call.rhs[c])
                                  [] call.op = "div" -> Div(call.recv[c], call.rhs[c]))
    /\ (call.op = "mul" => call.ret = ScaleCompsByCompsOf(call.recv, call.rhs))
    /\ (call.op = "add_assign" => self = VecAdd(call.recv, call.rhs))
    /\ (call.op = "sub_assign" => self = VecSub(call.recv, call.rhs))
    /\ (call.op = "mul_assign" => self = VecMul(call.recv, call.rhs))
    /\ (call.op = "div_assign" => self = VecDiv(call.recv, call.rhs))

\* A Vector3D has been multiplied in place by another, and the result is
\* not their cross product.
C10_Witness ==
    /\ call.op = "mul_assign"
    /\ Is3D(call.recv) /\ Plain(call.recv) /\ ~HasNaN(self)
    /\ self = Vector3D_scale_comps_by_comps(call.recv, call.rhs)
    /\ self # Vector3D_cross(call.recv, call.rhs)
    /\ self # Vector3D_origin

\* normalized() of either type.
NormalizedOf(v) == IF Is3D(v) THEN Vector3D_normalized(v) ELSE Vector2D_normalized(v)

\* C11: to_unit() leaves the receiver unchanged when its magnitude is not
\* > 0 (no error), and otherwise leaves it with the value normalized()
\* returns for the same starting vector; where normalized() is None, to_unit()
\* changes no component.
C11_ToUnit ==
    call.op = "to_unit" =>
        LET mag == MagnitudeOf(call.recv)
            n   == NormalizedOf(call.recv)
        IN  /\ (~GtZero(mag) => self = call.recv)
            /\ (GtZero(mag) => n # None /\ self = n[2])
            /\ (n = None => self = call.recv)
            /\ DOMAIN self = DOMAIN call.recv

\* A Vector3D of irrational magnitude has been made a unit vector in place.
C11_Witness ==
    /\ call.op = "to_unit"
    /\ Is3D(call.recv)
    /\ IsSurd(MagnitudeOf(call.recv))
    /\ \A c \in {"x", "y", "z"} : self[c] # call.recv[c]
    /\ self = Vector3D_normalized(call.recv)[2]

\* v == other of either type.
VecEq(v, other) == IF Is3D(v) THEN Vector3D_eq(v, other) ELSE Vector2D_eq(v, other)

\* C12 as stated: v.add_scaled(w, k) == v + w.scale(k) and
\* v.scale_add(k, w) == v.scale(k) + w for all vectors v, w and scalars k.
C12_Original ==
    /\ (call.op = "add_scaled" =>
            VecEq(call.ret, VecAdd(call.recv, ScaleOf(call.other, call.value))))
    /\ (call.op = "scale_add" =>
            VecEq(call.ret, VecAdd(ScaleOf(call.recv, call.value), call.other)))

\* C12 amended: v.add_scaled(w, k) has the fields v + w * k, those of
\* v + w.scale(k), and v.scale_add(k, w) has the fields v * k + w, those of
\* v.scale(k) + w; each == holds exactly when the result has no NaN field;
\* neither call modifies v or w.
C12_Combinators ==
    /\ (call.op = "add_scaled" =>
            /\ DOMAIN call.ret = DOMAIN call.recv
            /\ \A c \in DOMAIN call.recv :
                  call.ret[c] = Add(call.recv[c], Mul(call.other[c], call.value))
            /\ call.ret = VecAdd(call.recv, ScaleOf(call.other, call.value))
            /\ (VecEq(call.ret, VecAdd(call.recv, ScaleOf(call.other, call.value)))
                    <=> ~HasNaN(call.ret)))
    /\ (call.op = "scale_add" =>
            /\ DOMAIN call.ret = DOMAIN call.recv
            /\ \A c \in DOMAIN call.recv :
                  call.ret[c] = Add(Mul(call.recv[c], call.value), call.other[c])
            /\ call.ret = VecAdd(ScaleOf(call.recv, call.value), call.other)
            /\ (VecEq(call.ret, VecAdd(ScaleOf(call.recv, call.value), call.other))
                    <=> ~HasNaN(call.ret)))
    /\ (call.op \in {"add_scaled", "scale_add"} =>
            self = call.recv /\ arg1 = call.other)

\* add_scaled has returned, for finite operands, a vector that scale_add
\* does not return for the same operands.
C12_Witness ==
    /\ call.op = "add_scaled"
    /\ Is3D(call.recv)
    /\ ~HasNaN(call.ret) /\ \A c \in {"x", "y", "z"} : IsQ(call.ret[c])
    /\ Vector3D_eq(call.ret, Vector3D_add(call.recv, Vector3D_scale(call.other, call.value)))
    /\ call.ret # Vector3D_scale_add(call.recv, call.value, call.other)

\* Every field of v is a rational number.
Rational(v) == \A c \in DOMAIN v : IsQ(v[c])

\* C13: in exact arithmetic (operands with real fields), a.cross(b) ==
\* b.cross(a).scale(-1), a.dot(a.cross(b)) == 0, b.dot(a.cross(b)) == 0,
\* a.triple_scalar_prod(a, b) == 0 and a.cross(a) is the zero vector.
C13_CrossIdentities ==
    (call.op \in {"cross/cross.scale", "cross.dot", "triple_scalar_prod.self", "cross.self"}
        /\ Rational(call.recv) /\ Rational(call.other)) =>
        /\ (call.op = "cross/cross.scale" => Vector3D_eq(call.ret, call.rev))
        /\ (call.op = "cross.dot" =>
                F64_eq(call.ret_recv, Zero) /\ F64_eq(call.ret_other, Zero))
        /\ (call.op = "triple_scalar_prod.self" => F64_eq(call.ret, Zero))
        /\ (call.op = "cross.self" => Vector3D_eq(call.ret, Vector3D_origin))

\* The cross product of two vectors, with no zero field, has been dotted
\* with each of them.
C13_Witness ==
    /\ call.op = "cross.dot"
    /\ Rational(call.recv) /\ Rational(call.other)
    /\ \A c \in {"x", "y", "z"} : call.cross[c] # Zero
    /\ call.ret_recv = Zero /\ call.ret_other = Zero

=============================================================================
